---------------------------- MODULE Spec2Model ----------------------------
(***************************************************************************)
(* Model of packages/node/src/parsers.ts: the pipeline that turns an       *)
(* Error-like object into an event (parseError -> getExceptionFromError    *)
(* -> extractStackFromError -> parseStack -> addPrePostContext ->          *)
(* readSourceFiles -> prepareFramesForEvent), and its pure helpers         *)
(* (getFunction, getModule).                                               *)
(*                                                                         *)
(* JavaScript strings that the code inspects (filenames, function names,   *)
(* type names) are sequences of one-character strings, so that startsWith, *)
(* indexOf, lastIndexOf, substr, includes and replace are computed as the  *)
(* code computes them.  The value `undefined` of a string-valued property  *)
(* is the one-element sequence Undefined, which no character sequence      *)
(* equals; `undefined` of a number-valued property is NoNumber.            *)
(***************************************************************************)
EXTENDS Integers, Sequences, FiniteSets, TLC

VARIABLES
    pc,           \* position of the capture (or of the getModule call)
    error,        \* the Error-like object handed to parseError
    stack,        \* raw stack entries of the error, innermost call first
    disk,         \* the filesystem: filename -> content, or Missing
    name,         \* `name` resolved by parseError (line 194)
    frames,       \* StackFrame[] built by parseStack, enriched in place
    filesToRead,  \* filenames parseStack hands to addPrePostContext
    pending,      \* indices of filesToRead whose read has not settled
    sourceFiles,  \* readSourceFiles' map filename -> content
    reads,        \* history: the filenames whose read was issued, in order
    exception,    \* SentryException returned by getExceptionFromError
    event,        \* SentryEvent returned by parseError
    call,         \* arguments of a direct getModule(filename, base) call
    result        \* what that call returned

vars == <<pc, error, stack, disk, name, frames, filesToRead, pending,
          sourceFiles, reads, exception, event, call, result>>

----------------------------------------------------------------------------
(* String literals of the code and of the inputs, as character sequences.  *)

Undefined == <<"#undefined">>
NoNumber == -1
sEmpty == <<>>
sSlash == <<"/">>
sDot == <<".">>
sColon == <<":">>
sColonSpace == <<":", " ">>
sJsExt == <<".", "j", "s">>
sNodeModulesDir == <<"/", "n", "o", "d", "e", "_", "m", "o", "d", "u", "l", "e", "s", "/">>
sNodeModules == <<"n", "o", "d", "e", "_", "m", "o", "d", "u", "l", "e", "s", "/">>
sDriveSep == <<":", "\\">>
sAnonymous == <<"<", "a", "n", "o", "n", "y", "m", "o", "u", "s", ">">>
sCaptureMessage == <<"c", "a", "p", "t", "u", "r", "e", "M", "e", "s", "s", "a", "g", "e">>
sCaptureException == <<"c", "a", "p", "t", "u", "r", "e", "E", "x", "c", "e", "p", "t", "i", "o", "n">>
sNoMessage == <<"<", "n", "o", " ", "m", "e", "s", "s", "a", "g", "e", ">">>
sAppBase == <<"/", "a", "p", "p", "/">>
sOtherBase == <<"/", "o", "t", "h", "e", "r", "/">>
sLibBase == <<"/", "a", "p", "p", "/", "l", "i", "b", "/">>
dApp == <<"/", "a", "p", "p">>
dLib == <<"/", "a", "p", "p", "/", "l", "i", "b">>
dLibUtil == <<"/", "a", "p", "p", "/", "l", "i", "b", "/", "u", "t", "i", "l">>
dPkgSub == <<"/", "a", "p", "p", "/", "n", "o", "d", "e", "_", "m", "o", "d", "u", "l", "e", "s", "/", "p", "k", "g", "/", "s", "u", "b">>
dNested == <<"/", "a", "p", "p", "/", "n", "o", "d", "e", "_", "m", "o", "d", "u", "l", "e", "s", "/", "p", "k", "g", "/", "n", "o", "d", "e", "_", "m", "o", "d", "u", "l", "e", "s", "/", "d", "e", "p">>
dOther == <<"/", "o", "t", "h", "e", "r">>
dApplication == <<"/", "a", "p", "p", "l", "i", "c", "a", "t", "i", "o", "n">>
fFoo == <<"f", "o", "o", ".", "j", "s">>
fBar == <<"b", "a", "r", ".", "j", "s">>
fIndex == <<"i", "n", "d", "e", "x", ".", "j", "s">>
fTs == <<"f", "o", "o", ".", "t", "s">>
fPlain == <<"f", "o", "o">>
sLibFoo == <<"/", "a", "p", "p", "/", "l", "i", "b", "/", "f", "o", "o", ".", "j", "s">>
sPkgBar == <<"/", "a", "p", "p", "/", "n", "o", "d", "e", "_", "m", "o", "d", "u", "l", "e", "s", "/", "p", "k", "g", "/", "s", "u", "b", "/", "b", "a", "r", ".", "j", "s">>
sIndex == <<"/", "a", "p", "p", "/", "i", "n", "d", "e", "x", ".", "j", "s">>
sEvents == <<"e", "v", "e", "n", "t", "s", ".", "j", "s">>
nError == <<"E", "r", "r", "o", "r">>
nMyError == <<"M", "y", "E", "r", "r", "o", "r">>
nObject == <<"O", "b", "j", "e", "c", "t">>
sFoo == <<"f", "o", "o">>
sRun == <<"r", "u", "n">>
sMsg == <<"b", "o", "o", "m">>
sUndefinedText == <<"u", "n", "d", "e", "f", "i", "n", "e", "d">>
sSdkCapture == <<"H", "u", "b", ".", "c", "a", "p", "t", "u", "r", "e", "E", "x", "c", "e", "p", "t", "i", "o", "n">>

----------------------------------------------------------------------------
(* JavaScript string and path primitives used by the code.                 *)

\* JS truthiness of a string-valued expression
Truthy(s) == s # Undefined /\ s # sEmpty

\* a || b on string-valued operands
OrElse(a, b) == IF Truthy(a) THEN a ELSE b

\* JS truthiness / `n || 0` on number-valued operands
NumOrZero(n) == IF n = NoNumber THEN 0 ELSE n

\* the 0-based positions at which p occurs in s
Occurrences(s, p) ==
    { i \in 0..(Len(s) - Len(p)) : SubSeq(s, i + 1, i + Len(p)) = p }

Min(S) == CHOOSE x \in S : \A y \in S : x <= y
Max(S) == CHOOSE x \in S : \A y \in S : x >= y

\* String.prototype.indexOf(p)
IndexOf(s, p) == IF Occurrences(s, p) = {} THEN -1 ELSE Min(Occurrences(s, p))

\* String.prototype.lastIndexOf(p)
LastIndexOf(s, p) == IF Occurrences(s, p) = {} THEN -1 ELSE Max(Occurrences(s, p))

\* String.prototype.lastIndexOf(p, from): the last occurrence at or before from
LastIndexOfFrom(s, p, from) ==
    LET occ == { i \in Occurrences(s, p) : i <= from }
    IN  IF occ = {} THEN -1 ELSE Max(occ)

StartsWith(s, p) == Len(p) <= Len(s) /\ SubSeq(s, 1, Len(p)) = p
EndsWith(s, p) == Len(p) <= Len(s) /\ SubSeq(s, Len(s) - Len(p) + 1, Len(s)) = p
Includes(s, p) == IndexOf(s, p) # -1

\* String.prototype.substr(n)
Substr(s, n) == SubSeq(s, n + 1, Len(s))

\* s.replace(/\//g, '.')
ReplaceSlashes(s) == [i \in 1..Len(s) |-> IF s[i] = "/" THEN "." ELSE s[i]]

\* path.basename(p, ext) for a POSIX path without trailing slash
Basename(p, ext) ==
    LET b == Substr(p, LastIndexOf(p, sSlash) + 1)
    IN  IF EndsWith(b, ext) /\ Len(b) > Len(ext)
        THEN SubSeq(b, 1, Len(b) - Len(ext))
        ELSE b

\* path.dirname(p) for a POSIX path without trailing slash
Dirname(p) ==
    LET n == LastIndexOf(p, sSlash)
    IN  IF n = -1 THEN sDot
        ELSE IF n = 0 THEN sSlash
        ELSE SubSeq(p, 1, n)

----------------------------------------------------------------------------
(* getModule (lines 28-57)                                                 *)

\* the directory of the main module, with a trailing slash (lines 28-29)
mainModule == sAppBase

\* getModule with the ':' separator of line 51 forgotten
getModuleNoSeparator(filename, base) ==
    LET b    == IF Truthy(base) THEN base ELSE mainModule
        file == Basename(filename, sJsExt)
        dir  == Dirname(filename)
        n    == LastIndexOf(dir, sNodeModulesDir)
    IN  IF n > -1
        THEN ReplaceSlashes(Substr(dir, n + 14)) \o sColon \o file
        ELSE IF LastIndexOfFrom(dir \o sSlash, b, 0) = 0
             THEN ReplaceSlashes(Substr(dir, Len(b))) \o file
             ELSE file

getModule(filename, base) ==
    LET b    == IF Truthy(base) THEN base ELSE mainModule
        file == Basename(filename, sJsExt)
        dir  == Dirname(filename)
        n    == LastIndexOf(dir, sNodeModulesDir)
    IN  IF n > -1
        THEN ReplaceSlashes(Substr(dir, n + 14)) \o sColon \o file
        ELSE IF LastIndexOfFrom(dir \o sSlash, b, 0) = 0
             THEN LET moduleName == ReplaceSlashes(Substr(dir, Len(b)))
                  IN  (IF moduleName # sEmpty THEN moduleName \o sColon
                                              ELSE moduleName) \o file
             ELSE file

----------------------------------------------------------------------------
(* Raw stack entries (stack-trace's StackFrame) and getFunction            *)

\* getFunction (lines 17-26); getTypeName may throw (lines 20-25)
getFunction(frame) ==
    IF Truthy(frame.functionName) THEN frame.functionName
    ELSE IF frame.typeNameThrows THEN sAnonymous
    ELSE frame.typeName \o sDot \o OrElse(frame.methodName, sAnonymous)

----------------------------------------------------------------------------
(* Source text.  A file's content is the sequence of the lengths of its    *)
(* '\n'-separated lines (what split('\n') yields), so the empty string is  *)
(* <<0>>; a piece of source text is named by its line number and the       *)
(* character range [start, end) kept of that line.                         *)

LINES_OF_CONTEXT == 7

Missing == <<-1>>
EmptyContent == <<0>>

\* content.split('\n') (line 157): the lines, each with its 1-based number
Split(content) == [i \in 1..Len(content) |-> [no |-> i, len |-> content[i]]]

Min2(a, b) == IF a < b THEN a ELSE b
Max2(a, b) == IF a > b THEN a ELSE b

\* Array.prototype.slice(b, e): 0-based, end exclusive, negative from the end
Slice(s, b, e) ==
    LET n    == Len(s)
        from == IF b < 0 THEN Max2(n + b, 0) ELSE Min2(b, n)
        to   == IF e < 0 THEN Max2(n + e, 0) ELSE Min2(e, n)
    IN  SubSeq(s, from + 1, to)

SnipLimit == 150
SnipBefore == 60
SnipWidth == 140
SnipEdge == 5

\* snipLine(line, colno) of @sentry/utils/string: a line of at most SnipLimit
\* characters is kept whole, a longer one is cut to a window around colno
snipLine(line, colno) ==
    LET ll    == line.len
        col   == Min2(colno, ll)
        s0    == Max2(col - SnipBefore, 0)
        s1    == IF s0 < SnipEdge THEN 0 ELSE s0
        e0    == Min2(s1 + SnipWidth, ll)
        e1    == IF e0 > ll - SnipEdge THEN ll ELSE e0
        s2    == IF e1 = ll THEN Max2(e1 - SnipWidth, 0) ELSE s1
    IN  IF ll <= SnipLimit
        THEN [no |-> line.no, start |-> 0, end |-> ll]
        ELSE [no |-> line.no, start |-> s2, end |-> e1]

NoLine == [no |-> 0, start |-> 0, end |-> 0]

----------------------------------------------------------------------------
(* parseStack's per-entry normalisation (lines 104-135)                    *)

\* isInternal (lines 112-117)
IsInternal(frame, filename) ==
    \/ frame.native
    \/ /\ Truthy(filename)
       /\ ~StartsWith(filename, sSlash)
       /\ ~StartsWith(filename, sDot)
       /\ IndexOf(filename, sDriveSep) # 1

\* whether the entry's filename is pushed to filesToRead, with the guard of
\* line 129 left out
ShouldReadAnyFrame(frame, filename) == Truthy(filename)

\* whether the entry's filename is pushed to filesToRead (lines 126-131)
ShouldRead(frame, filename) == Truthy(filename) /\ ~IsInternal(frame, filename)

\* the StackFrame built for one raw entry (lines 105-134); `has` is the set
\* of context fields present on the object
ParseFrame(frame) ==
    LET filename == OrElse(frame.fileName, sEmpty)
    IN  [ colno        |-> frame.columnNumber,
          filename     |-> filename,
          function     |-> getFunction(frame),
          lineno       |-> frame.lineNumber,
          in_app       |-> /\ ~IsInternal(frame, filename)
                           /\ filename # Undefined
                           /\ ~Includes(filename, sNodeModules),
          module       |-> IF Truthy(filename)
                           THEN getModule(filename, Undefined)
                           ELSE Undefined,
          has          |-> {},
          pre_context  |-> <<>>,
          context_line |-> NoLine,
          post_context |-> <<>> ]

\* stack.map(...) of lines 104-135
ParseFrames(st) == [i \in 1..Len(st) |-> ParseFrame(st[i])]

RECURSIVE FilesToRead(_)
\* the filenames pushed by the map of lines 104-135, in order
FilesToRead(st) ==
    IF st = <<>> THEN <<>>
    ELSE LET frame    == Head(st)
             filename == OrElse(frame.fileName, sEmpty)
         IN  (IF ShouldRead(frame, filename) THEN <<filename>> ELSE <<>>)
             \o FilesToRead(Tail(st))

----------------------------------------------------------------------------
(* addPrePostContext's per-frame enrichment (lines 154-174)                *)

\* the condition of line 155
HasSource(frame, files) ==
    /\ Truthy(frame.filename)
    /\ frame.filename \in DOMAIN files
    /\ files[frame.filename] # EmptyContent

\* the first argument of the slice of line 160, with the `+ 1` forgotten
PreContextStartOffByOne(lineno) == Max2(0, lineno - LINES_OF_CONTEXT)

\* the first argument of the slice of line 160
PreContextStart(lineno) == Max2(0, lineno - (LINES_OF_CONTEXT + 1))

\* lines 156-171: a line index outside the file makes snipLine throw at line
\* 163, after pre_context was assigned; the catch of line 168 swallows it
AddContext(frame, files) ==
    IF ~HasSource(frame, files) THEN frame
    ELSE LET lines  == Split(files[frame.filename])
             lineno == NumOrZero(frame.lineno)
             colno  == NumOrZero(frame.colno)
             pre    == Slice(lines, PreContextStart(lineno), lineno - 1)
             post   == Slice(lines, lineno, lineno + LINES_OF_CONTEXT)
             withPre == [frame EXCEPT
                           !.pre_context = [i \in 1..Len(pre) |-> snipLine(pre[i], 0)],
                           !.has = {"pre_context"}]
         IN  IF lineno - 1 \in 0..(Len(lines) - 1)
             THEN [withPre EXCEPT
                     !.context_line = snipLine(lines[lineno], colno),
                     !.post_context = [i \in 1..Len(post) |-> snipLine(post[i], 0)],
                     !.has = {"pre_context", "context_line", "post_context"}]
             ELSE withPre

\* frames.map(...) of lines 154-174
AddPrePostContext(fs, files) == [i \in 1..Len(fs) |-> AddContext(fs[i], files)]

----------------------------------------------------------------------------
(* prepareFramesForEvent (lines 218-232)                                   *)

Reverse(s) == [i \in 1..Len(s) |-> s[Len(s) + 1 - i]]

\* prepareFramesForEvent with the reverse of line 231 forgotten
prepareFramesNoReverse(st) ==
    IF st = <<>> THEN <<>>
    ELSE LET firstFrameFunction == OrElse(st[1].function, sEmpty)
         IN  IF \/ Includes(firstFrameFunction, sCaptureMessage)
                \/ Includes(firstFrameFunction, sCaptureException)
             THEN Tail(st)
             ELSE st

prepareFramesForEvent(st) ==
    IF st = <<>> THEN <<>>
    ELSE LET firstFrameFunction == OrElse(st[1].function, sEmpty)
         IN  IF \/ Includes(firstFrameFunction, sCaptureMessage)
                \/ Includes(firstFrameFunction, sCaptureException)
             THEN Reverse(Tail(st))
             ELSE Reverse(st)

\* whether line 227 took a copy, so that the reverse of line 231 leaves the
\* caller's array alone
SlicedCopy(st) ==
    /\ st # <<>>
    /\ \/ Includes(OrElse(st[1].function, sEmpty), sCaptureMessage)
       \/ Includes(OrElse(st[1].function, sEmpty), sCaptureException)

----------------------------------------------------------------------------
(* The error object: name resolution and the `extra` mapping               *)

\* error.name: an own property, or the one inherited from the prototype
ErrorName(err) ==
    IF "name" \in DOMAIN err.own THEN err.own["name"] ELSE err.protoName

\* error.message
ErrorMessage(err) ==
    IF "message" \in DOMAIN err.own THEN err.own["message"] ELSE err.message

\* whether `error.name || error.constructor.name` throws a TypeError
\* (lines 179, 194): name is falsy and constructor is undefined
NameThrows(err) == ~Truthy(ErrorName(err)) /\ ~err.hasCtor

\* error.name || error.constructor.name, when it does not throw
ResolveName(err) == IF Truthy(ErrorName(err)) THEN ErrorName(err) ELSE err.ctorName

\* `${x}` of a string-valued expression
Str(x) == IF x = Undefined THEN sUndefinedText ELSE x

DecimalKey == <<"0", "1", "2", "3", "4", "5", "6", "7", "8", "9">>

\* the reserved names listed at line 202
ReservedKeys == <<"name", "message", "stack", "domain">>

\* JavaScript's `key in arr` on an array: true of the array's indices and of
\* `length`, whatever the elements are
InArray(key, arr) ==
    \/ key = "length"
    \/ \E i \in 1..Len(arr) : key = DecimalKey[i]

\* Object.keys(error).filter(...) of line 202
ErrorKeys(err) == { key \in DOMAIN err.own : ~InArray(key, ReservedKeys) }

\* the event of lines 196-214
BuildEvent(err, nm, exc) ==
    [ exception |-> <<exc>>,
      message   |-> Str(nm) \o sColonSpace \o OrElse(ErrorMessage(err), sNoMessage),
      hasExtra  |-> ErrorKeys(err) # {},
      extraKey  |-> nm,
      extra     |-> [key \in ErrorKeys(err) |-> err.own[key]] ]

----------------------------------------------------------------------------
(* Inputs                                                                  *)

MaxStack == 2
MaxLines == 20

NoKeys == [key \in {} |-> 0]

\* new Error('boom')
errPlain ==
    [ own |-> NoKeys, protoName |-> nError, hasCtor |-> TRUE,
      ctorName |-> nError, message |-> sMsg, parsed |-> <<>> ]

\* an Error with err.customCode = 42
errCustom == [errPlain EXCEPT !.own = ("customCode" :> 42)]

\* an Error with err.name = 'MyError' assigned (own, enumerable) and customCode
errOwnName ==
    [errPlain EXCEPT !.own = ("name" :> nMyError) @@ ("customCode" :> 42)]

\* an object literal { message, stack, domain }: no name, constructor Object
errLiteral ==
    [ own |-> ("message" :> sMsg) @@ ("stack" :> sMsg) @@ ("domain" :> sMsg),
      protoName |-> Undefined, hasCtor |-> TRUE, ctorName |-> nObject,
      message |-> Undefined, parsed |-> <<>> ]

\* Object.create(null) with a message: no name and no constructor
errNoProto ==
    [ own |-> ("message" :> sMsg), protoName |-> Undefined, hasCtor |-> FALSE,
      ctorName |-> Undefined, message |-> Undefined, parsed |-> <<>> ]

\* no name, a constructor without a name, an index-like key and customCode
errAnonCtor ==
    [ own |-> ("0" :> 7) @@ ("customCode" :> 42), protoName |-> Undefined,
      hasCtor |-> TRUE, ctorName |-> Undefined, message |-> sEmpty,
      parsed |-> <<>> ]

ErrorShapes == {errPlain, errCustom, errOwnName, errLiteral, errNoProto, errAnonCtor}

Entry(fileName, lineNumber, columnNumber, functionName, native) ==
    [ fileName |-> fileName, lineNumber |-> lineNumber,
      columnNumber |-> columnNumber, functionName |-> functionName,
      typeName |-> nObject, typeNameThrows |-> FALSE, methodName |-> Undefined,
      native |-> native ]

\* application code: foo at /app/lib/foo.js:2:4
entryApp == Entry(sLibFoo, 2, 4, sFoo, FALSE)
\* a dependency: Object.run at /app/node_modules/pkg/sub/bar.js:1:0
entryDep == [Entry(sPkgBar, 1, 0, Undefined, FALSE) EXCEPT !.methodName = sRun]
\* a native entry without filename whose getTypeName throws
entryNative ==
    [Entry(Undefined, NoNumber, NoNumber, Undefined, TRUE) EXCEPT !.typeNameThrows = TRUE]
\* a non-native entry without filename
entryNoFile == Entry(Undefined, NoNumber, NoNumber, sRun, FALSE)
\* a native entry that reports the filename of application code
entryNativeShared == Entry(sLibFoo, 3, 1, sRun, TRUE)
\* a node core module: events.js:1:1
entryCore == Entry(sEvents, 1, 1, Undefined, FALSE)
\* the SDK's capture entry point
entrySdk == Entry(sIndex, 1, 2, sSdkCapture, FALSE)
\* application code whose line number is 0
entryLineZero == Entry(sLibFoo, 0, 0, sRun, FALSE)
\* application code whose line number is past the end of the file
entryPastEnd == Entry(sIndex, 5, 1, sFoo, FALSE)

RawEntries ==
    { entryApp, entryDep, entryNative, entryNoFile, entryNativeShared,
      entryCore, entrySdk, entryLineZero, entryPastEnd }

Stacks == UNION { [1..n -> RawEntries] : n \in 0..MaxStack }

Disks ==
    { (sLibFoo :> foo) @@ (sPkgBar :> bar) @@ (sIndex :> index) :
        foo   \in {Missing, <<10, 200, 0>>},
        bar   \in {Missing, <<10, 10>>},
        index \in {Missing, EmptyContent, <<5, 5>>} }

\* readFileAsync(filename): the content, or Missing when the read rejects
ReadFile(d, filename) == IF filename \in DOMAIN d THEN d[filename] ELSE Missing

NoException == [frames |-> <<>>, type |-> Undefined, value |-> Undefined]
NoEvent ==
    [ exception |-> <<>>, message |-> sEmpty, hasExtra |-> FALSE,
      extraKey |-> Undefined, extra |-> NoKeys ]
NoCall == [filename |-> sEmpty, base |-> Undefined]
NoFiles == [f \in {} |-> EmptyContent]

----------------------------------------------------------------------------
(* One capture: parseError(error)                                          *)

Init ==
    /\ pc = "parseError"
    /\ \E shape \in ErrorShapes, st \in Stacks : error = [shape EXCEPT !.parsed = st]
    /\ disk \in Disks
    /\ stack = <<>>
    /\ name = Undefined
    /\ frames = <<>>
    /\ filesToRead = <<>>
    /\ pending = {}
    /\ sourceFiles = NoFiles
    /\ reads = <<>>
    /\ exception = NoException
    /\ event = NoEvent
    /\ call = NoCall
    /\ result = Undefined

\* parseError, line 194: resolve the name, or reject with the TypeError
ParseError ==
    /\ pc = "parseError"
    /\ IF NameThrows(error)
       THEN pc' = "rejected" /\ UNCHANGED name
       ELSE pc' = "getExceptionFromError" /\ name' = ResolveName(error)
    /\ UNCHANGED <<error, stack, disk, frames, filesToRead, pending, sourceFiles,
                   reads, exception, event, call, result>>

\* getExceptionFromError, lines 179-180, and extractStackFromError
GetExceptionFromError ==
    /\ pc = "getExceptionFromError"
    /\ stack' = error.parsed
    /\ pc' = "parseStack"
    /\ UNCHANGED <<error, disk, name, frames, filesToRead, pending, sourceFiles,
                   reads, exception, event, call, result>>

\* parseStack, lines 103-135
ParseStack ==
    /\ pc = "parseStack"
    /\ frames' = ParseFrames(stack)
    /\ filesToRead' = FilesToRead(stack)
    /\ pc' = "readSourceFiles"
    /\ UNCHANGED <<error, stack, disk, name, pending, sourceFiles, reads,
                   exception, event, call, result>>

\* readSourceFiles, lines 66-75: one read is issued per element of filenames
ReadSourceFiles ==
    /\ pc = "readSourceFiles"
    /\ sourceFiles' = NoFiles
    /\ pending' = 1..Len(filesToRead)
    /\ reads' = filesToRead
    /\ pc' = "reading"
    /\ UNCHANGED <<error, stack, disk, name, frames, filesToRead, exception,
                   event, call, result>>

\* one read settles (lines 76-85): a string is stored, a failure is not
ReadSettled(i) ==
    /\ pc = "reading"
    /\ i \in pending
    /\ LET filename == filesToRead[i]
           content  == ReadFile(disk, filename)
       IN  sourceFiles' = IF content # Missing
                          THEN (filename :> content) @@ sourceFiles
                          ELSE sourceFiles
    /\ pending' = pending \ {i}
    /\ UNCHANGED <<pc, error, stack, disk, name, frames, filesToRead, reads,
                   exception, event, call, result>>

\* a fan-in that does not wait for the reads
SomeSettled(p) == TRUE

\* await Promise.all(...) of line 74
AllSettled(p) == p = {}

\* addPrePostContext, lines 153-174, once readSourceFiles has returned.
\* Every read's failure is caught at line 79 and the per-frame code has its
\* own catch (line 168), so addPrePostContext never rejects and the catch of
\* parseStack (lines 139-143) is never entered: it has no action here.
AddPrePostContextStep ==
    /\ pc = "reading"
    /\ AllSettled(pending)
    /\ frames' = AddPrePostContext(frames, sourceFiles)
    /\ pc' = "prepareFrames"
    /\ UNCHANGED <<error, stack, disk, name, filesToRead, pending, sourceFiles,
                   reads, exception, event, call, result>>

\* getExceptionFromError, lines 183-189; the reverse of line 231 is in place
\* unless line 227 took a copy
PrepareFrames ==
    /\ pc = "prepareFrames"
    /\ exception' = [ frames |-> prepareFramesForEvent(frames),
                      type   |-> name,
                      value  |-> ErrorMessage(error) ]
    /\ frames' = IF SlicedCopy(frames) THEN frames ELSE Reverse(frames)
    /\ pc' = "buildEvent"
    /\ UNCHANGED <<error, stack, disk, name, filesToRead, pending, sourceFiles,
                   reads, event, call, result>>

\* parseError, lines 196-214
BuildEventStep ==
    /\ pc = "buildEvent"
    /\ event' = BuildEvent(error, name, exception)
    /\ pc' = "resolved"
    /\ UNCHANGED <<error, stack, disk, name, frames, filesToRead, pending,
                   sourceFiles, reads, exception, call, result>>

Next ==
    \/ ParseError
    \/ GetExceptionFromError
    \/ ParseStack
    \/ ReadSourceFiles
    \/ \E i \in 1..Len(filesToRead) : ReadSettled(i)
    \/ AddPrePostContextStep
    \/ PrepareFrames
    \/ BuildEventStep

Spec == Init /\ [][Next]_vars

----------------------------------------------------------------------------
(* addPrePostContext on one frame, over files of up to MaxLines lines: the *)
(* capture is taken up where readSourceFiles has returned                  *)

LineNumbers == {NoNumber} \cup 0..(MaxLines + 1)
ColumnNumbers == {NoNumber, 0, 100, 170}

\* a file of n lines; every second line is 300 characters long when `long`
ContentOf(n, short, long) ==
    [i \in 1..n |-> IF long /\ i % 2 = 0 THEN 300 ELSE short]

ContextInit ==
    \E n \in 1..MaxLines, lineno \in LineNumbers, colno \in ColumnNumbers,
       short \in {0, 10}, long \in BOOLEAN :
        LET content == ContentOf(n, short, long)
            entry   == Entry(sLibFoo, lineno, colno, sFoo, FALSE)
        IN  /\ pc = "reading"
            /\ error = [errPlain EXCEPT !.parsed = <<entry>>]
            /\ stack = <<entry>>
            /\ disk = (sLibFoo :> content)
            /\ name = nError
            /\ frames = ParseFrames(<<entry>>)
            /\ filesToRead = FilesToRead(<<entry>>)
            /\ pending = {}
            /\ sourceFiles = (sLibFoo :> content)
            /\ reads = FilesToRead(<<entry>>)
            /\ exception = NoException
            /\ event = NoEvent
            /\ call = NoCall
            /\ result = Undefined

ContextNext == AddPrePostContextStep

SpecContext == ContextInit /\ [][ContextNext]_vars

----------------------------------------------------------------------------
(* getModule(filename, base) called directly                               *)

ModuleDirs == {dApp, dLib, dLibUtil, dPkgSub, dNested, dOther, dApplication}
ModuleFiles == {fFoo, fBar, fIndex, fTs, fPlain}
ModuleBases == {sAppBase, sOtherBase, sLibBase, Undefined}

ModuleInit ==
    /\ pc = "getModule"
    /\ \E dir \in ModuleDirs, file \in ModuleFiles, base \in ModuleBases :
          call = [filename |-> dir \o sSlash \o file, base |-> base]
    /\ result = Undefined
    /\ error = errPlain
    /\ stack = <<>>
    /\ disk = NoFiles
    /\ name = Undefined
    /\ frames = <<>>
    /\ filesToRead = <<>>
    /\ pending = {}
    /\ sourceFiles = NoFiles
    /\ reads = <<>>
    /\ exception = NoException
    /\ event = NoEvent

GetModuleCall ==
    /\ pc = "getModule"
    /\ result' = getModule(call.filename, call.base)
    /\ pc' = "returned"
    /\ UNCHANGED <<error, stack, disk, name, frames, filesToRead, pending,
                   sourceFiles, reads, exception, event, call>>

ModuleNext == GetModuleCall

SpecModule == ModuleInit /\ [][ModuleNext]_vars

----------------------------------------------------------------------------
(* Properties                                                              *)

\* module names the properties compare with
mLibColonFoo == <<"l", "i", "b", ":", "f", "o", "o">>
mLibDotFoo == <<"l", "i", "b", ".", "f", "o", "o">>
mPkgSubBar == <<"p", "k", "g", ".", "s", "u", "b", ":", "b", "a", "r">>
mIndex == <<"i", "n", "d", "e", "x">>

Last(s) == s[Len(s)]

Elements(s) == { s[i] : i \in 1..Len(s) }

\* the filename parseStack gives the frame of a raw entry
FileNameOf(entry) == OrElse(entry.fileName, sEmpty)

\* frames is index-aligned with stack from parseStack until the reverse
Aligned == pc \in {"readSourceFiles", "reading", "prepareFrames"}

\* the frame is the normalisation of that raw entry
SameCallSite(frame, entry) ==
    /\ frame.function = getFunction(entry)
    /\ frame.filename = FileNameOf(entry)
    /\ frame.lineno = entry.lineNumber
    /\ frame.colno = entry.columnNumber

\* C1: parseError never rejects, and the event it resolves with carries a
\* type label even when the error has no name and no usable constructor.
C1_NeverRejects ==
    /\ pc # "rejected"
    /\ pc = "resolved" => Truthy(event.exception[1].type)

\* C2: the event's extra, keyed by the type name, holds exactly the error's
\* own enumerable properties other than name, message, stack and domain, and
\* is absent when none remains.
C2_ExtraIsOwnMinusReserved ==
    pc = "resolved" =>
        LET expected == DOMAIN error.own \ {"name", "message", "stack", "domain"}
        IN  /\ event.hasExtra = (expected # {})
            /\ event.hasExtra =>
                 /\ event.extraKey = name
                 /\ DOMAIN event.extra = expected
                 /\ \A key \in expected : event.extra[key] = error.own[key]

\* C3: a raw entry without filename yields a frame with in_app = false,
\* native or not.
C3_NoFilenameNotInApp ==
    Aligned =>
        \A i \in 1..Len(stack) :
            ~Truthy(stack[i].fileName) => ~frames[i].in_app

HasCaptureMarker(fn) ==
    Includes(fn, sCaptureMessage) \/ Includes(fn, sCaptureException)

LineNos(pieces) == [k \in 1..Len(pieces) |-> pieces[k].no]

\* lines a..b of the file, in order
FromTo(a, b) == [k \in 1..(IF b >= a THEN b - a + 1 ELSE 0) |-> a + k - 1]

\* C6: for a read file of N lines and a fault line L in 1..N, pre_context is
\* lines max(1, L-7)..L-1, context_line is line L and post_context is lines
\* L+1..min(N, L+7); a line of at most SnipLimit characters is kept whole.
C6_ContextWindow ==
    pc = "prepareFrames" =>
        \A i \in 1..Len(frames) :
            LET f       == frames[i]
                content == ReadFile(sourceFiles, f.filename)
                N       == Len(content)
                L       == f.lineno
                pieces  == Elements(f.pre_context) \cup Elements(f.post_context)
                             \cup {f.context_line}
            IN  (content \notin {Missing, EmptyContent} /\ L \in 1..N) =>
                    /\ f.has = {"pre_context", "context_line", "post_context"}
                    /\ LineNos(f.pre_context) = FromTo(Max2(1, L - 7), L - 1)
                    /\ Len(f.pre_context) = Min2(7, L - 1)
                    /\ f.context_line.no = L
                    /\ LineNos(f.post_context) = FromTo(L + 1, Min2(N, L + 7))
                    /\ Len(f.post_context) = Min2(7, N - L)
                    /\ \A p \in pieces :
                          content[p.no] <= SnipLimit =>
                              p.start = 0 /\ p.end = content[p.no]

\* a 20-line file with the fault at line 10: lines 3-9, line 10, lines 11-17
C6_Witness ==
    /\ pc = "prepareFrames"
    /\ Len(sourceFiles[sLibFoo]) = 20
    /\ frames[1].lineno = 10
    /\ LineNos(frames[1].pre_context) = <<3, 4, 5, 6, 7, 8, 9>>
    /\ frames[1].context_line.no = 10
    /\ LineNos(frames[1].post_context) = <<11, 12, 13, 14, 15, 16, 17>>

\* C7: for a read file and a fault line that is unknown or 0, pre_context is
\* empty and context_line is not set.
C7_LineZeroEmptyPre ==
    pc = "prepareFrames" =>
        \A i \in 1..Len(frames) :
            (HasSource(frames[i], sourceFiles) /\ NumOrZero(frames[i].lineno) = 0) =>
                /\ frames[i].pre_context = <<>>
                /\ "context_line" \notin frames[i].has

\* C8: the enrichment runs only once every issued read has settled; a frame
\* whose file is missing has no context field; a frame whose file was read
\* is enriched as from its own file alone, whatever happened to other reads.
C8_ReadsJoinedAndIndependent ==
    /\ pc \in {"prepareFrames", "buildEvent", "resolved"} => pending = {}
    /\ pc = "prepareFrames" =>
          \A i \in 1..Len(frames) :
              LET filename == frames[i].filename
              IN  /\ ReadFile(disk, filename) = Missing => frames[i].has = {}
                  /\ (filename \in Elements(reads) /\ ReadFile(disk, filename) # Missing)
                        => frames[i] = AddContext(ParseFrame(stack[i]),
                                                  (filename :> disk[filename]))

\* one frame was enriched although the read for another frame failed
C8_Witness ==
    /\ pc = "prepareFrames"
    /\ \E i, j \in 1..Len(frames) :
          /\ frames[i].has = {"pre_context", "context_line", "post_context"}
          /\ frames[j].filename \in Elements(reads)
          /\ ReadFile(disk, frames[j].filename) = Missing
          /\ frames[j].has = {}

\* C9 as stated: with base /app/, /app/lib/foo.js is lib.foo,
\* /app/node_modules/pkg/sub/bar.js is pkg.sub:bar and /app/index.js is index.
C9_ModuleNamesAsStated ==
    (pc = "returned" /\ call.base = sAppBase) =>
        /\ call.filename = sLibFoo => result = mLibDotFoo
        /\ call.filename = sPkgBar => result = mPkgSubBar
        /\ call.filename = sIndex => result = mIndex

\* C9 as amended: /app/lib/foo.js is lib:foo (directory part and file stem
\* are joined with ':'); the other two names are as stated.
C9_ModuleNames ==
    (pc = "returned" /\ call.base = sAppBase) =>
        /\ call.filename = sLibFoo => result = mLibColonFoo
        /\ call.filename = sPkgBar => result = mPkgSubBar
        /\ call.filename = sIndex => result = mIndex

\* getModule('/app/lib/foo.js', '/app/') has returned lib:foo
C9_Witness ==
    /\ pc = "returned"
    /\ call = [filename |-> sLibFoo, base |-> sAppBase]
    /\ result = mLibColonFoo

\* C10: within one capture no filename is read more than once.
C10_EachFileReadOnce ==
    \A i, j \in 1..Len(reads) : i # j => reads[i] # reads[j]

=============================================================================
